---- MODULE Spec2Model ----
(***************************************************************************)
(* A model of the analysis pipeline of the NLP service (nlp_service):      *)
(* text normalisation, the action-template history store (in-memory and    *)
(* SQLite), fusion, postprocessing, the result cache and the analyzer.     *)
(*                                                                         *)
(* Conventions of the model:                                               *)
(*  - a text is a sequence of symbols; a symbol stands for one character   *)
(*    class or one word of the source text (see Lower, IsPunct, IsSpace);  *)
(*  - a float that the code computes from integers by +, * and / is kept   *)
(*    as an exact fraction <<numerator, denominator>> in lowest terms      *)
(*    (the rounding of IEEE doubles is not modelled);                      *)
(*  - a confidence is kept in thousandths (0.7 is 700), points in tenths;  *)
(*  - an Optional value is None, or Some(v) for a value v.                 *)
(***************************************************************************)
EXTENDS Integers, Sequences, FiniteSets, TLC

VARIABLES
    impl,       \* which HistoryLookupService the analyzer was built with
    store,      \* the history rows: InMemoryHistoryService.data / action_templates
    recSum,     \* ghost: per row key, the sum of the durations given to record_action
    recCnt,     \* ghost: per row key, the number of record_action calls
    nrec,       \* ghost: the number of record_action calls made so far
    lastOp,     \* ghost: the last HistoryStore call and what it returned
    fz,         \* the last FusionService call made on its own: its arguments and result
    cfg,        \* the settings: cache_enabled, use_llm_fallback
    cache,      \* the result cache: per cache key, the serialized result or None
    req,        \* per request, the locals of its analyze_text coroutine
    running,    \* the request whose coroutine holds the event loop, 0 when none does
    call,       \* one parse_with_llm call of OpenAILLMParser: its attempts and its result
    pp,         \* the last PostprocessorService call made on its own: its argument and result
    co          \* the last cache service call made on its own: its arguments and result

histVars == <<impl, store, recSum, recCnt, nrec, lastOp>>

anVars == <<cfg, cache, req, running>>

svcVars == <<call, pp, co>>

vars == <<impl, store, recSum, recCnt, nrec, lastOp, fz, cfg, cache, req, running, call, pp, co>>

----------------------------------------------------------------------------
(* Bounds of the model *)

MaxDur == 2
MaxRecords == 3
MaxSeed == 2

\* Optional[...] values: None, or a value v as <<v>>
None == << >>
Some(v) == <<v>>

----------------------------------------------------------------------------
(* Texts: TextPreprocessor.normalize_text *)

\* str.lower(): the capitalised symbols and their lower-case forms
Lower(c) ==
    CASE c = "Z" -> "z"
      [] c = "C" -> "c"
      [] c = "G" -> "g"
      [] c = "I" -> "i"
      [] OTHER -> c

\* a character that is neither \w nor \s
IsPunct(c) == c \in {",", "!", ";"}

\* a whitespace character
IsSpace(c) == c \in {" "}

LowerText(text) == [i \in 1..Len(text) |-> Lower(text[i])]

\* re.sub(r'[^\w\s]', '', text)
RemovePunct(text) == SelectSeq(text, LAMBDA c : ~IsPunct(c))

\* re.sub(r'\s+', ' ', text)
RECURSIVE CollapseSpaces(_)
CollapseSpaces(text) ==
    IF Len(text) = 0 THEN << >>
    ELSE IF IsSpace(text[1])
         THEN IF Len(text) > 1 /\ IsSpace(text[2])
              THEN CollapseSpaces(Tail(text))
              ELSE <<" ">> \o CollapseSpaces(Tail(text))
         ELSE <<text[1]>> \o CollapseSpaces(Tail(text))

RECURSIVE LStrip(_)
LStrip(text) ==
    IF Len(text) > 0 /\ IsSpace(text[1]) THEN LStrip(Tail(text)) ELSE text

RECURSIVE RStrip(_)
RStrip(text) ==
    IF Len(text) > 0 /\ IsSpace(text[Len(text)])
    THEN RStrip(SubSeq(text, 1, Len(text) - 1))
    ELSE text

\* str.strip()
Strip(text) == RStrip(LStrip(text))

normalize_text(text) == Strip(CollapseSpaces(RemovePunct(LowerText(text))))

----------------------------------------------------------------------------
(* TextPreprocessor.preprocess *)

\* a phone number found by phonenumbers.PhoneNumberMatcher
IsPhone(c) == c \in {"p", "q"}

\* _clean_text: whitespace runs collapsed, then strip
clean_text(text) == Strip(CollapseSpaces(text))

\* _redact_pii: a phone number is replaced by the marker <PHONE>
redact_pii(text) == [i \in 1..Len(text) |-> IF IsPhone(text[i]) THEN "<PHONE>" ELSE text[i]]

\* preprocess that cleans the text and never redacts
preprocess_clean_only(enabled, text) ==
    IF text = << >> THEN << >> ELSE clean_text(text)

\* TextPreprocessor.preprocess with PII redaction switched on or off
preprocess(enabled, text) ==
    IF text = << >> THEN << >>
    ELSE IF enabled THEN redact_pii(clean_text(text))
    ELSE clean_text(text)

----------------------------------------------------------------------------
(* HistoryStore: SQLiteHistoryService and InMemoryHistoryService *)

\* user_id = 0 holds the global templates
GlobalUser == 0

\* the global user and two ordinary users
Users == {GlobalUser, 1, 2}
Durations == 1..MaxDur

\* SQL NULL in the user_id column
NULL == -1

\* Optional[int] None as returned by get_average_time
NoTime == -1

\* the action texts given to the HistoryStore
ActionTexts == { <<"z">>, <<"Z", "!">>, <<" ", "c">> }

\* the action texts of the analyzer's final actions
AnalyzerActionTexts ==
    { <<"z">>, <<"Z", "!">>, <<"c">>, <<"c", " ", "r">>, << >>,
      <<"e">>, <<"z", " ", "c">>, <<"z", " ", "<PHONE>">> }

NormTexts == { normalize_text(t) : t \in ActionTexts \cup AnalyzerActionTexts }

RowKeys == (Users \cup {NULL}) \X NormTexts

NoRow == [present |-> FALSE, avg |-> <<0, 1>>, occ |-> 0]

RECURSIVE GCD(_, _)
GCD(a, b) == IF b = 0 THEN a ELSE GCD(b, a % b)

\* the fraction n/d in lowest terms
Frac(n, d) == LET g == GCD(n, d) IN <<n \div g, d \div g>>

\* int(avg) of a float that is not negative
IntOf(avg) == avg[1] \div avg[2]

\* RowKey with the user dropped from the key: every user shares one row per text
RowKeyShared(user_id, normalized) == <<0, normalized>>

\* key = (user_id, normalized): the row a call reads and writes
RowKey(user_id, normalized) == <<user_id, normalized>>

\* IncrementalMean without the weight of the earlier occurrences
IncrementalMeanUnweighted(avg, occurrences, time_minutes) ==
    Frac(avg[1] + time_minutes * avg[2], avg[2] * 2)

\* new_avg = (avg_time * occurrences + time_minutes) / (occurrences + 1)
IncrementalMean(avg, occurrences, time_minutes) ==
    Frac(avg[1] * occurrences + time_minutes * avg[2], avg[2] * (occurrences + 1))

\* the row table after the UPDATE (the row read was present) or the INSERT of
\* record_action, row being what its SELECT read
WriteRow(st, key, row, time_minutes) ==
    IF row.present
    THEN [st EXCEPT ![key] =
             [present |-> TRUE,
              avg |-> IncrementalMean(row.avg, row.occ, time_minutes),
              occ |-> row.occ + 1]]
    ELSE [st EXCEPT ![key] =
             [present |-> TRUE, avg |-> Frac(time_minutes, 1), occ |-> 1]]

\* record_action run without interruption: the row table after the call
\* (the same in both services)
RecordInto(st, user_id, action_normalized, time_minutes) ==
    LET normalized == normalize_text(action_normalized)
        key == RowKey(user_id, normalized)
    IN  WriteRow(st, key, st[key], time_minutes)

\* InMemoryHistoryService.get_average_time
InMemoryGetAverageTime(st, user_id, action_normalized) ==
    LET normalized == normalize_text(action_normalized)
        key == RowKey(user_id, normalized)
        global_key == RowKey(GlobalUser, normalized)
    IN  IF st[key].present THEN IntOf(st[key].avg)
        ELSE IF st[global_key].present THEN IntOf(st[global_key].avg)
        ELSE NoTime

\* SQLiteHistoryService.get_average_time:
\* WHERE (user_id = ? OR user_id IS NULL) ... ORDER BY user_id DESC NULLS LAST LIMIT 1
SQLiteGetAverageTime(st, user_id, action_normalized) ==
    LET normalized == normalize_text(action_normalized)
        own == RowKey(user_id, normalized)
        nullrow == RowKey(NULL, normalized)
    IN  IF st[own].present THEN IntOf(st[own].avg)
        ELSE IF st[nullrow].present THEN IntOf(st[nullrow].avg)
        ELSE NoTime

\* HistoryLookupService.get_average_time of the service in use
GetAverageTime(im, st, user_id, action_normalized) ==
    IF im = "memory"
    THEN InMemoryGetAverageTime(st, user_id, action_normalized)
    ELSE SQLiteGetAverageTime(st, user_id, action_normalized)

----------------------------------------------------------------------------
(* Domain models: RawAction and Action (domain/models.py) *)

ACTIVITY == "activity"
ACHIEVEMENT == "achievement"

TEXT == "text"
HISTORY == "history"
MODEL == "model"
DEFAULT == "default"

\* settings.default_time_minutes
default_time_minutes == 10

\* settings.achievement_default_weight
achievement_default_weight == 10

\* settings.heuristic_confidence_threshold (0.8), in thousandths
heuristic_confidence_threshold == 800

\* the confidence a raw estimate needs to count as taken from the text (0.7)
text_confidence_min == 700

RawAction(cat, sub, act, ty, est, conf, weight, src) ==
    [category |-> cat, subcategory |-> sub, action |-> act, type |-> ty,
     estimated_time_minutes |-> est, confidence |-> conf,
     achievement_weight |-> weight, source |-> src]

\* the Field constraints of Action: a construction that breaks one raises ValidationError
ActionValid(a) ==
    /\ a.estimated_time_minutes >= 0
    /\ a.confidence >= 0 /\ a.confidence <= 1000
    /\ (a.achievement_weight # None => a.achievement_weight[1] >= 0)
    /\ a.points >= 0

----------------------------------------------------------------------------
(* HeuristicParser *)

\* one of the delimiters [,;]
IsDelimiter(c) == c \in {",", ";"}

\* one of the connectives of _segment_text (the match ignores case)
IsConnective(c) == c \in {"i", "I"}

\* the number of whitespace symbols at the start of text
RECURSIVE SpaceRun(_)
SpaceRun(text) ==
    IF Len(text) > 0 /\ IsSpace(text[1]) THEN 1 + SpaceRun(Tail(text)) ELSE 0

\* the length of a match of \s+connective\s+ at the start of text, 0 when there is none
ConnectiveMatch(text) ==
    LET n == SpaceRun(text)
        rest == SubSeq(text, n + 1, Len(text))
    IN  IF n > 0 /\ Len(rest) > 0 /\ IsConnective(rest[1]) /\ SpaceRun(Tail(rest)) > 0
        THEN n + 1 + SpaceRun(Tail(rest))
        ELSE 0

\* re.split on the delimiters: cur is the piece being read, the result the list of pieces
RECURSIVE SplitSegments(_, _)
SplitSegments(text, cur) ==
    IF Len(text) = 0 THEN <<cur>>
    ELSE IF IsDelimiter(text[1]) THEN <<cur>> \o SplitSegments(Tail(text), << >>)
    ELSE IF ConnectiveMatch(text) > 0
         THEN <<cur>> \o SplitSegments(SubSeq(text, ConnectiveMatch(text) + 1, Len(text)), << >>)
    ELSE SplitSegments(Tail(text), Append(cur, text[1]))

\* _segment_text: the stripped pieces that are not empty
segment_text(text) ==
    LET pieces == SplitSegments(text, << >>)
        stripped == [i \in 1..Len(pieces) |-> Strip(pieces[i])]
    IN  SelectSeq(stripped, LAMBDA s : s # << >>)

\* the categories in the order of _category_keywords, and their keywords
Categories == <<"sport", "study">>

\* "e" is an inflected form of the word "z": the keyword of "z" is a substring of it
CategoryKeywords(category) ==
    CASE category = "sport" -> {"z", "b", "e"}
      [] category = "study" -> {"c"}

\* the subcategories of a category in the order of the table, and their keywords
Subcategories(category) ==
    CASE category = "sport" -> <<"cardio">>
      [] category = "study" -> << >>

SubcategoryKeywords(subcat) ==
    CASE subcat = "cardio" -> {"b"}

\* "keyword in text_lower"
Contains(text, keywords) == \E i \in 1..Len(text) : Lower(text[i]) \in keywords

\* _detect_category: <<category, subcategory>>, <<None, None>> when no keyword is found
detect_category(text) ==
    LET found == SelectSeq(Categories, LAMBDA cat : Contains(text, CategoryKeywords(cat)))
    IN  IF found = << >> THEN <<None, None>>
        ELSE LET category == found[1]
                 subs == SelectSeq(Subcategories(category),
                                   LAMBDA s : Contains(text, SubcategoryKeywords(s)))
             IN  IF subs = << >> THEN <<Some(category), None>>
                 ELSE <<Some(category), Some(subs[1])>>

\* _achievement_keywords: the keyword and its weight
AchievementWeight(c) ==
    CASE c = "r" -> 25

\* _detect_achievement: <<is_achievement, weight>>
detect_achievement(text) ==
    IF Contains(text, {"r"}) THEN <<TRUE, Some(AchievementWeight("r"))>> ELSE <<FALSE, None>>

\* a match of _time_pattern: a number with its unit
IsTime(c) == c \in {"2m", "1h"}

\* the minutes of a time expression: hours * 60, minutes as they are
TimeMinutes(c) ==
    CASE c = "2m" -> 2
      [] c = "1h" -> 1 * 60

\* _extract_time: the first match of _time_pattern
extract_time(text) ==
    LET times == SelectSeq(text, IsTime)
    IN  IF times = << >> THEN None ELSE Some(TimeMinutes(times[1]))

\* the float sums 0.5 + 0.2 + 0.2 (0.8999999999999999), 0.5 + 0.2 + 0.1
\* (0.7999999999999999) and 0.5 + 0.2 + 0.2 + 0.1 (0.9999999999999999), in thousandths
FloatAdd(x, y) ==
    CASE x = 700 /\ y = 200 -> 899
      [] x = 700 /\ y = 100 -> 799
      [] x = 899 /\ y = 100 -> 999
      [] OTHER -> x + y

Min(a, b) == IF a <= b THEN a ELSE b
Max(a, b) == IF a >= b THEN a ELSE b

\* _calculate_action_confidence
calculate_action_confidence(category, time_minutes, is_achievement) ==
    LET c0 == 500
        c1 == IF category # None THEN FloatAdd(c0, 200) ELSE c0
        c2 == IF time_minutes # None THEN FloatAdd(c1, 200) ELSE c1
        c3 == IF is_achievement THEN FloatAdd(c2, 100) ELSE c2
    IN  Min(c3, 1000)

\* _clean_action_text: time expressions removed, whitespace collapsed, strip
clean_action_text(text) ==
    Strip(CollapseSpaces(SelectSeq(text, LAMBDA c : ~IsTime(c))))

\* _extract_action_from_segment: a sequence holding the RawAction, empty when the
\* segment has no category
extract_action_from_segment(segment) ==
    LET cat == detect_category(segment)
        ach == detect_achievement(segment)
        time_minutes == extract_time(segment)
    IN  IF cat[1] = None THEN << >>
        ELSE << RawAction(cat[1][1], cat[2], clean_action_text(segment),
                          IF ach[1] THEN ACHIEVEMENT ELSE ACTIVITY,
                          time_minutes,
                          calculate_action_confidence(cat[1], time_minutes, ach[1]),
                          ach[2], "heuristic") >>

RECURSIVE SumConfidence(_)
SumConfidence(actions) ==
    IF actions = << >> THEN 0 ELSE Head(actions).confidence + SumConfidence(Tail(actions))

\* _calculate_confidence: the mean of the confidences, 0.0 for no action
calculate_confidence(actions) ==
    IF actions = << >> THEN 0 ELSE SumConfidence(actions) \div Len(actions)

RECURSIVE ExtractAll(_)
ExtractAll(segments) ==
    IF segments = << >> THEN << >>
    ELSE extract_action_from_segment(Head(segments)) \o ExtractAll(Tail(segments))

\* HeuristicParser.parse: the RawParseResult
heuristic_parse(text) ==
    LET actions == ExtractAll(segment_text(text))
    IN  [actions |-> actions, confidence |-> calculate_confidence(actions), errors |-> << >>]

----------------------------------------------------------------------------
(* Fusion: FusionService *)

\* _determine_time with the comparison of the confidence made strict
determine_time_strict(im, st, user_id, raw_action) ==
    LET history_time == GetAverageTime(im, st, user_id, normalize_text(raw_action.action))
    IN  IF raw_action.estimated_time_minutes # None /\ raw_action.confidence > text_confidence_min
        THEN <<raw_action.estimated_time_minutes[1], TEXT>>
        ELSE IF history_time # NoTime THEN <<history_time, HISTORY>>
        ELSE IF raw_action.estimated_time_minutes # None
             THEN <<raw_action.estimated_time_minutes[1], MODEL>>
        ELSE <<default_time_minutes, DEFAULT>>

\* FusionService._determine_time: <<time_minutes, time_source>>
determine_time(im, st, user_id, raw_action) ==
    LET history_time == GetAverageTime(im, st, user_id, normalize_text(raw_action.action))
    IN  IF raw_action.estimated_time_minutes # None /\ raw_action.confidence >= text_confidence_min
        THEN <<raw_action.estimated_time_minutes[1], TEXT>>
        ELSE IF history_time # NoTime THEN <<history_time, HISTORY>>
        ELSE IF raw_action.estimated_time_minutes # None
             THEN <<raw_action.estimated_time_minutes[1], MODEL>>
        ELSE <<default_time_minutes, DEFAULT>>

\* Python's "w or d" for an Optional[int] w: d when w is None or 0
WeightOr(w, d) == IF w = None \/ w[1] = 0 THEN d ELSE w[1]

\* FusionService._enrich_action: the Action built from a RawAction (points in tenths)
enrich_action(im, st, user_id, raw_action) ==
    LET tm == determine_time(im, st, user_id, raw_action)
        achievement_weight ==
            IF raw_action.type = ACHIEVEMENT /\ raw_action.achievement_weight = None
            THEN Some(achievement_default_weight)
            ELSE raw_action.achievement_weight
        points ==
            IF raw_action.type = ACHIEVEMENT
            THEN 10 * WeightOr(achievement_weight, achievement_default_weight)
            ELSE tm[1]
    IN  [category |-> raw_action.category,
         subcategory |-> raw_action.subcategory,
         action |-> raw_action.action,
         type |-> raw_action.type,
         estimated_time_minutes |-> tm[1],
         time_source |-> tm[2],
         confidence |-> raw_action.confidence,
         achievement_weight |-> achievement_weight,
         points |-> points]

\* _merge_actions that appends the heuristic actions to the LLM's
merge_actions_both(heuristic_actions, llm_actions) == llm_actions \o heuristic_actions

\* FusionService._merge_actions
merge_actions(heuristic_actions, llm_actions) ==
    IF Len(llm_actions) > 0 THEN llm_actions ELSE heuristic_actions

\* FusionService.fuse_results: ok is FALSE when building an Action raised
fuse_results(im, st, user_id, heuristic_actions, llm_actions) ==
    LET merged == merge_actions(heuristic_actions, llm_actions)
        final == [i \in 1..Len(merged) |-> enrich_action(im, st, user_id, merged[i])]
    IN  IF \A i \in 1..Len(final) : ActionValid(final[i])
        THEN [ok |-> TRUE, actions |-> final]
        ELSE [ok |-> FALSE, actions |-> << >>]

\* should_use_llm with "<=" for "<"
should_use_llm_inclusive(heuristic_confidence, heuristic_action_count) ==
    IF heuristic_action_count = 0 THEN TRUE
    ELSE IF heuristic_confidence <= heuristic_confidence_threshold THEN TRUE
    ELSE FALSE

\* FusionService.should_use_llm
should_use_llm(heuristic_confidence, heuristic_action_count) ==
    IF heuristic_action_count = 0 THEN TRUE
    ELSE IF heuristic_confidence < heuristic_confidence_threshold THEN TRUE
    ELSE FALSE

----------------------------------------------------------------------------
(* LLM parser: OpenAILLMParser *)

\* an action of the LLM's JSON answer that passes LLMActionSchema
LLMAction(cat, sub, act, ty, est, conf, weight) ==
    [category |-> cat, subcategory |-> sub, action |-> act, type |-> ty,
     estimated_time_minutes |-> est, confidence |-> conf, achievement_weight |-> weight]

\* ActionType(llm_action.type), ACTIVITY when the value is not a type
ActionTypeOf(ty) == IF ty \in {ACTIVITY, ACHIEVEMENT} THEN ty ELSE ACTIVITY

\* _parse_response: the RawActions of a well-formed answer
parse_response(actions) ==
    [i \in 1..Len(actions) |->
        RawAction(actions[i].category, actions[i].subcategory, actions[i].action,
                  ActionTypeOf(actions[i].type),
                  Some(actions[i].estimated_time_minutes),
                  Min(Max(actions[i].confidence, 0), 1000),
                  actions[i].achievement_weight, "llm")]

\* parse_with_llm: the LLMParseResult for an answer; any exception gives the
\* result with no action and one error
parse_with_llm(response) ==
    IF response.kind = "ok"
    THEN LET actions == parse_response(response.actions)
         IN  [actions |-> actions, confidence |-> calculate_confidence(actions),
              errors |-> << >>]
    ELSE [actions |-> << >>, confidence |-> 0, errors |-> <<"LLM parsing failed">>]

----------------------------------------------------------------------------
(* Postprocessing: PostprocessorService *)

\* the replacement of a synonym: "gym" (g) and the inflected form (e) by the
\* word for them, and the capitalised forms
Synonym(c) ==
    CASE c = "g" -> "z"
      [] c = "G" -> "Z"
      [] c = "e" -> "z"
      [] OTHER -> c

\* _apply_synonyms
apply_synonyms(text) == [i \in 1..Len(text) |-> Synonym(text[i])]

\* _normalize_actions
normalize_actions(actions) ==
    [i \in 1..Len(actions) |->
        [actions[i] EXCEPT !.action = apply_synonyms(Strip(actions[i].action))]]

\* the length of a longest common subsequence
RECURSIVE LCS(_, _)
LCS(s, t) ==
    IF s = << >> \/ t = << >> THEN 0
    ELSE IF Head(s) = Head(t) THEN 1 + LCS(Tail(s), Tail(t))
    ELSE Max(LCS(Tail(s), t), LCS(s, Tail(t)))

\* PostprocessorService.similarity_threshold (0.85), in hundredths
similarity_threshold == 85

\* fuzz.ratio(s, t) / 100.0 >= similarity_threshold, fuzz.ratio being
\* 100 * 2 * LCS / (len(s) + len(t)), and 100 for two empty strings
RatioAtLeast(s, t, threshold) ==
    IF Len(s) + Len(t) = 0 THEN TRUE
    ELSE 100 * 2 * LCS(s, t) >= threshold * (Len(s) + Len(t))

\* _are_similar
are_similar(action1, action2) ==
    /\ action1.category = action2.category
    /\ action1.type = action2.type
    /\ RatioAtLeast(LowerText(action1.action), LowerText(action2.action), similarity_threshold)

\* time_priority of _merge_actions
time_priority(source) ==
    CASE source = TEXT -> 4
      [] source = HISTORY -> 3
      [] source = MODEL -> 2
      [] source = DEFAULT -> 1

\* Python's "a or b" for Optional[str]: b when a is None or the empty string
StrOr(a, b) == IF a = None \/ a[1] = "" THEN b ELSE a

\* PostprocessorService._merge_actions
post_merge_actions(action1, action2) ==
    LET better_time_action ==
            IF time_priority(action1.time_source) >= time_priority(action2.time_source)
            THEN action1 ELSE action2
        better_confidence_action ==
            IF action1.confidence >= action2.confidence THEN action1 ELSE action2
    IN  [category |-> better_confidence_action.category,
         subcategory |-> StrOr(better_confidence_action.subcategory,
                               better_time_action.subcategory),
         action |-> better_confidence_action.action,
         type |-> better_confidence_action.type,
         estimated_time_minutes |-> better_time_action.estimated_time_minutes,
         time_source |-> better_time_action.time_source,
         confidence |-> Max(action1.confidence, action2.confidence),
         achievement_weight |-> better_confidence_action.achievement_weight,
         points |-> better_time_action.points]

\* the first index of unique_actions whose action is similar to action, 0 when none is
FirstSimilar(action, unique_actions) ==
    LET hits == { i \in 1..Len(unique_actions) : are_similar(action, unique_actions[i]) }
    IN  IF hits = {} THEN 0 ELSE CHOOSE i \in hits : \A j \in hits : i <= j

\* the loop of _deduplicate_actions over the actions that are left
RECURSIVE DedupLoop(_, _)
DedupLoop(actions, unique_actions) ==
    IF actions = << >> THEN unique_actions
    ELSE LET action == Head(actions)
             idx == FirstSimilar(action, unique_actions)
         IN  IF idx = 0
             THEN DedupLoop(Tail(actions), Append(unique_actions, action))
             ELSE DedupLoop(Tail(actions),
                            [unique_actions EXCEPT
                                ![idx] = post_merge_actions(unique_actions[idx], action)])

\* _deduplicate_actions
deduplicate_actions(actions) ==
    IF Len(actions) <= 1 THEN actions ELSE DedupLoop(actions, << >>)

\* the points _validate_actions holds to be correct, in tenths; action.type.value
\* is read as the string value of the action's type
correct_points(action) ==
    IF action.type = ACHIEVEMENT
    THEN 10 * WeightOr(action.achievement_weight, 10)
    ELSE action.estimated_time_minutes

\* _validate_actions for one action
validate_action(action) ==
    LET a1 == IF action.estimated_time_minutes < 0
              THEN [action EXCEPT !.estimated_time_minutes = 10] ELSE action
        a2 == IF a1.confidence < 0 THEN [a1 EXCEPT !.confidence = 0]
              ELSE IF a1.confidence > 1000 THEN [a1 EXCEPT !.confidence = 1000]
              ELSE a1
    IN  IF a2.points # correct_points(a2)
        THEN [a2 EXCEPT !.points = correct_points(a2)] ELSE a2

\* _validate_actions
validate_actions(actions) == [i \in 1..Len(actions) |-> validate_action(actions[i])]

\* PostprocessorService.process
process(actions) ==
    IF actions = << >> THEN << >>
    ELSE validate_actions(deduplicate_actions(normalize_actions(actions)))

----------------------------------------------------------------------------
(* AnalysisResult, its JSON form, and the result cache *)

\* date.today()
today == 2

\* the latency a parser measures, in milliseconds
latency_ms == 0

\* JSON null
JNull == <<"null">>

\* an Optional value as JSON (null, or the value), and back
ToJson(opt) == IF opt = None THEN JNull ELSE <<"value", opt[1]>>

\* FromJson that reads every value as null
FromJsonNull(v) == None

FromJson(v) == IF v = JNull THEN None ELSE Some(v[2])

\* the value of a member of a JSON object, the object being its list of members
Member(obj, name) == (CHOOSE i \in 1..Len(obj) : obj[i][1] = name)

\* model_dump_json of an Action: the members in the order of the fields
dump_action(a) ==
    << <<"category", a.category>>,
       <<"subcategory", ToJson(a.subcategory)>>,
       <<"action", a.action>>,
       <<"type", a.type>>,
       <<"estimated_time_minutes", a.estimated_time_minutes>>,
       <<"time_source", a.time_source>>,
       <<"confidence", a.confidence>>,
       <<"achievement_weight", ToJson(a.achievement_weight)>>,
       <<"points", a.points>> >>

\* Action(**data)
load_action(obj) ==
    [category |-> obj[Member(obj, "category")][2],
     subcategory |-> FromJson(obj[Member(obj, "subcategory")][2]),
     action |-> obj[Member(obj, "action")][2],
     type |-> obj[Member(obj, "type")][2],
     estimated_time_minutes |-> obj[Member(obj, "estimated_time_minutes")][2],
     time_source |-> obj[Member(obj, "time_source")][2],
     confidence |-> obj[Member(obj, "confidence")][2],
     achievement_weight |-> FromJson(obj[Member(obj, "achievement_weight")][2]),
     points |-> obj[Member(obj, "points")][2]]

\* AnalysisMeta that keeps the defaults of used_llm and llm_latency_ms
AnalysisMetaDefaults(used_llm, llm_latency, errors) ==
    [used_heuristics |-> <<"keyword_match", "time_extraction", "category_detection">>,
     used_llm |-> FALSE,
     llm_latency_ms |-> None,
     heuristic_latency_ms |-> Some(latency_ms),
     errors |-> errors]

\* AnalysisMeta() with the fields analyze_text sets
AnalysisMeta(used_llm, llm_latency, errors) ==
    [used_heuristics |-> <<"keyword_match", "time_extraction", "category_detection">>,
     used_llm |-> used_llm,
     llm_latency_ms |-> llm_latency,
     heuristic_latency_ms |-> Some(latency_ms),
     errors |-> errors]

\* AnalysisResult that carries a text in raw_text
AnalysisResultWithText(user_id, date, actions, meta) ==
    [user_id |-> user_id, date |-> date, raw_text |-> Some(<<"x">>), actions |-> actions,
     meta |-> meta]

\* AnalysisResult(user_id, date, raw_text=None, actions, meta)
AnalysisResult(user_id, date, actions, meta) ==
    [user_id |-> user_id, date |-> date, raw_text |-> None, actions |-> actions,
     meta |-> meta]

\* result.model_dump_json(): the date in ISO form, None as null
model_dump_json(result) ==
    << <<"user_id", result.user_id>>,
       <<"date", [iso |-> result.date]>>,
       <<"raw_text", ToJson(result.raw_text)>>,
       <<"actions", [i \in 1..Len(result.actions) |-> dump_action(result.actions[i])]>>,
       <<"meta", << <<"used_heuristics", result.meta.used_heuristics>>,
                    <<"used_llm", result.meta.used_llm>>,
                    <<"llm_latency_ms", ToJson(result.meta.llm_latency_ms)>>,
                    <<"heuristic_latency_ms", ToJson(result.meta.heuristic_latency_ms)>>,
                    <<"errors", result.meta.errors>> >> >> >>

\* AnalysisResult(**json.loads(cached_json)) without the validation
load_result(json) ==
    LET acts == json[Member(json, "actions")][2]
        meta == json[Member(json, "meta")][2]
    IN  [user_id |-> json[Member(json, "user_id")][2],
         date |-> json[Member(json, "date")][2].iso,
         raw_text |-> FromJson(json[Member(json, "raw_text")][2]),
         actions |-> [i \in 1..Len(acts) |-> load_action(acts[i])],
         meta |-> [used_heuristics |-> meta[Member(meta, "used_heuristics")][2],
                   used_llm |-> meta[Member(meta, "used_llm")][2],
                   llm_latency_ms |-> FromJson(meta[Member(meta, "llm_latency_ms")][2]),
                   heuristic_latency_ms |->
                       FromJson(meta[Member(meta, "heuristic_latency_ms")][2]),
                   errors |-> meta[Member(meta, "errors")][2]]]

\* generate_cache_key(user_id, normalized_text): the digest of "user_id:text",
\* kept as the pair it is the digest of
generate_cache_key(user_id, text) == <<user_id, text>>

\* _get_cached_result: the cached AnalysisResult, None when the key has no
\* entry or the entry does not validate
get_cached_result(entries, user_id, text) ==
    LET cached_json == entries[generate_cache_key(user_id, normalize_text(text))]
    IN  IF cached_json = None THEN None
        ELSE LET result == load_result(cached_json[1])
             IN  IF \A i \in 1..Len(result.actions) : ActionValid(result.actions[i])
                 THEN Some(result)
                 ELSE None

\* _cache_result: the entries after cache_service.set(cache_key, result_json)
cache_result(entries, user_id, text, result) ==
    [entries EXCEPT ![generate_cache_key(user_id, normalize_text(text))] =
        Some(model_dump_json(result))]

----------------------------------------------------------------------------
(* The state of the analyzer: settings, result cache, requests, event loop *)

\* the requests the service handles, and what they ask
Requests == {1, 2}
RequestUsers == {1, 2}

\* user ids other than 0 are interchangeable: the first request is user 1's
UsersOf(r) == IF r = 1 THEN {1} ELSE RequestUsers
RequestTexts == { <<"z", " ", "2m">>, <<"Z", "!">>, <<"x">>, <<"z", ",", "c", " ", "r">> }
RequestDates == {None, Some(1)}

\* further request texts: a word with a synonym with and without a duration, two
\* texts that differ in a comma only, two texts that differ in the phone number only
VariantTexts ==
    { <<"e", " ", "2m">>, <<"e">>,
      <<"z", ",", " ", "c">>, <<"z", " ", "c">>,
      <<"z", " ", "p">>, <<"z", " ", "q">> }

CacheKeys ==
    { generate_cache_key(u, normalize_text(t)) :
        u \in RequestUsers, t \in RequestTexts \cup VariantTexts }

NoResult == [actions |-> << >>, confidence |-> 0, errors |-> << >>]

\* a request that has not arrived
NoRequest ==
    [pc |-> "idle", user_id |-> 0, text |-> << >>, date |-> 0, processed |-> << >>,
     h |-> NoResult, llm |-> None, final |-> << >>, i |-> 0, sel |-> NoRow,
     result |-> None, hcalls |-> 0, lcalls |-> 0, conc |-> FALSE, faults |-> {}]

\* no request has arrived: the state of the analyzer after construction
AnalyzerIdle ==
    /\ cache = [k \in CacheKeys |-> None]
    /\ req = [r \in Requests |-> NoRequest]
    /\ running = 0

----------------------------------------------------------------------------
(* The HistoryStore on its own: calls of record_action and get_average_time *)

NoOp == [op |-> "none", user |-> 0, text |-> << >>, result |-> NoTime]

\* no FusionService call made yet
NoFuse == [op |-> "none", user |-> 0, h |-> << >>, l |-> << >>, conf |-> 0, count |-> 0,
           out |-> [ok |-> TRUE, actions |-> << >>], use |-> FALSE]

\* no parse_with_llm call is in progress
NoCall == [pc |-> "idle", attempts |-> 0, outcomes |-> << >>, result |-> None]

\* no PostprocessorService call was made
NoPost == [op |-> "none", actions |-> << >>, out |-> << >>, again |-> << >>]

\* no cache service call was made
NoCacheOp == [op |-> "none", key |-> << >>, up |-> TRUE, ret |-> None, raised |-> FALSE]

ServicesIdle ==
    /\ call = NoCall
    /\ pp = NoPost
    /\ co = NoCacheOp

InitHistory ==
    /\ impl \in {"memory", "sqlite"}
    /\ store = [k \in RowKeys |-> NoRow]
    /\ recSum = [k \in RowKeys |-> 0]
    /\ recCnt = [k \in RowKeys |-> 0]
    /\ nrec = 0
    /\ lastOp = NoOp
    /\ fz = NoFuse
    /\ cfg = [cache_enabled |-> TRUE, use_llm_fallback |-> TRUE]
    /\ AnalyzerIdle
    /\ ServicesIdle

RecordAction(user_id, text, time_minutes) ==
    LET key == RowKey(user_id, normalize_text(text))
    IN  /\ nrec < MaxRecords
        /\ nrec' = nrec + 1
        /\ store' = RecordInto(store, user_id, text, time_minutes)
        /\ recSum' = [recSum EXCEPT ![key] = @ + time_minutes]
        /\ recCnt' = [recCnt EXCEPT ![key] = @ + 1]
        /\ lastOp' = [op |-> "record", user |-> user_id, text |-> text,
                      result |-> NoTime]
        /\ UNCHANGED <<impl, fz, anVars, svcVars>>

InMemoryRecordAction ==
    /\ impl = "memory"
    /\ \E u \in Users, t \in ActionTexts, d \in Durations : RecordAction(u, t, d)

SQLiteRecordAction ==
    /\ impl = "sqlite"
    /\ \E u \in Users, t \in ActionTexts, d \in Durations : RecordAction(u, t, d)

InMemoryGet ==
    /\ impl = "memory"
    /\ \E u \in Users, t \in ActionTexts :
          lastOp' = [op |-> "get", user |-> u, text |-> t,
                     result |-> InMemoryGetAverageTime(store, u, t)]
    /\ UNCHANGED <<impl, store, recSum, recCnt, nrec, fz, anVars, svcVars>>

SQLiteGet ==
    /\ impl = "sqlite"
    /\ \E u \in Users, t \in ActionTexts :
          lastOp' = [op |-> "get", user |-> u, text |-> t,
                     result |-> SQLiteGetAverageTime(store, u, t)]
    /\ UNCHANGED <<impl, store, recSum, recCnt, nrec, fz, anVars, svcVars>>

NextHistory ==
    \/ InMemoryRecordAction
    \/ SQLiteRecordAction
    \/ InMemoryGet
    \/ SQLiteGet

SpecHistory == InitHistory /\ [][NextHistory]_vars

----------------------------------------------------------------------------
(* The FusionService on its own, over a HistoryStore filled by record_action *)

\* the raw actions given to _enrich_action
EnrichRaws ==
    { RawAction("sport", None, t, ty, e, c, None, "heuristic") :
        t \in {<<"Z", "!">>, <<" ", "c">>}, ty \in {ACTIVITY, ACHIEVEMENT},
        e \in {None, Some(MaxDur)}, c \in {text_confidence_min - 1, text_confidence_min} }

\* the lists given to fuse_results
H1 == RawAction("sport", None, <<"z">>, ACTIVITY, None, 700, None, "heuristic")
H2 == RawAction("study", None, <<" ", "c">>, ACHIEVEMENT, Some(MaxDur), 999, Some(25), "heuristic")
L1 == RawAction("sport", Some("yoga"), <<"Z", "!">>, ACTIVITY, Some(MaxDur), 950, None, "llm")
L2 == RawAction("home", None, <<"c">>, ACHIEVEMENT, Some(1), 400, Some(0), "llm")
L3 == RawAction("home", None, <<"c">>, ACTIVITY, Some(0 - MaxDur), 900, None, "llm")

HeuristicLists == { << >>, <<H1>>, <<H1, H2>> }
LLMLists == { << >>, <<L1>>, <<L2, L1>>, <<L3>> }

\* the confidences and counts given to should_use_llm
DecisionConfs == { 0, heuristic_confidence_threshold - 1, heuristic_confidence_threshold,
                   heuristic_confidence_threshold + 1 }
DecisionCounts == 0..2

InitFusion ==
    /\ impl \in {"memory", "sqlite"}
    /\ store = [k \in RowKeys |-> NoRow]
    /\ recSum = [k \in RowKeys |-> 0]
    /\ recCnt = [k \in RowKeys |-> 0]
    /\ nrec = 0
    /\ lastOp = NoOp
    /\ fz = NoFuse
    /\ cfg = [cache_enabled |-> TRUE, use_llm_fallback |-> TRUE]
    /\ AnalyzerIdle
    /\ ServicesIdle

\* the history is filled by record_action calls, then one FusionService call is made
SeedHistory ==
    /\ fz.op = "none"
    /\ nrec < MaxSeed
    /\ \E u \in Users, t \in ActionTexts, d \in Durations :
          LET key == RowKey(u, normalize_text(t))
          IN  /\ store' = RecordInto(store, u, t, d)
              /\ recSum' = [recSum EXCEPT ![key] = @ + d]
              /\ recCnt' = [recCnt EXCEPT ![key] = @ + 1]
    /\ nrec' = nrec + 1
    /\ fz' = NoFuse
    /\ UNCHANGED <<impl, lastOp, anVars, svcVars>>

EnrichAction ==
    /\ fz.op = "none"
    /\ \E u \in Users, raw \in EnrichRaws :
          LET a == enrich_action(impl, store, u, raw)
          IN  fz' = [NoFuse EXCEPT !.op = "enrich", !.user = u, !.h = <<raw>>,
                                   !.out = IF ActionValid(a)
                                           THEN [ok |-> TRUE, actions |-> <<a>>]
                                           ELSE [ok |-> FALSE, actions |-> << >>]]
    /\ UNCHANGED <<histVars, anVars, svcVars>>

FuseResults ==
    /\ fz.op = "none"
    /\ \E u \in Users \ {GlobalUser}, hs \in HeuristicLists, ls \in LLMLists :
          fz' = [NoFuse EXCEPT !.op = "fuse", !.user = u, !.h = hs, !.l = ls,
                               !.out = fuse_results(impl, store, u, hs, ls)]
    /\ UNCHANGED <<histVars, anVars, svcVars>>

ShouldUseLLM ==
    /\ fz.op = "none"
    /\ \E c \in DecisionConfs, n \in DecisionCounts :
          fz' = [NoFuse EXCEPT !.op = "should_use_llm", !.conf = c, !.count = n,
                               !.use = should_use_llm(c, n)]
    /\ UNCHANGED <<histVars, anVars, svcVars>>

NextFusion ==
    \/ SeedHistory
    \/ EnrichAction
    \/ FuseResults
    \/ ShouldUseLLM

SpecFusion == InitFusion /\ [][NextFusion]_vars

----------------------------------------------------------------------------
(* The analyzer: TextAnalyzer.analyze_text, one coroutine per request *)

\* the answers of the LLM service
LA1 == LLMAction("sport", None, <<"z">>, "activity", 1, 900, None)
LA2 == LLMAction("sport", None, <<"z">>, "achievement", 0, 950, Some(0))
LA3 == LLMAction("", None, << >>, "bogus", 1, 1500, None)
LA4 == LLMAction("home", None, <<"c">>, "activity", 0 - 1, 900, None)
LA5 == LLMAction("home", None, <<"z">>, "activity", 3, 600, None)

LLMResponses ==
    { [kind |-> "error", actions |-> << >>] } \cup
    { [kind |-> "ok", actions |-> as] :
        as \in { << >>, <<LA1>>, <<LA2>>, <<LA3>>, <<LA4>>, <<LA1, LA5>> } }

\* CacheHit that never finds the entry
CacheHitNever(cache_enabled, cached) == FALSE

\* "if self.cache_service and self.settings.cache_enabled: ... if cached: return cached"
CacheHit(cache_enabled, cached) == cache_enabled /\ cached # None

\* Suspends with record_action giving up the event loop between its SELECT
\* and its INSERT / UPDATE
SuspendsInRecord(pc) == pc \in {"llm", "write", "done", "failed"}

\* where a coroutine gives up the event loop: at the await of the LLM call and
\* when it ends; everything else runs without a suspension
Suspends(pc) == pc \in {"llm", "done", "failed"}

\* the event loop runs one coroutine at a time
MayRun(r) == running \in {0, r}

Yield(r, pc) == IF Suspends(pc) THEN 0 ELSE r

InitAnalyzer ==
    /\ impl \in {"memory", "sqlite"}
    /\ store = [k \in RowKeys |-> NoRow]
    /\ recSum = [k \in RowKeys |-> 0]
    /\ recCnt = [k \in RowKeys |-> 0]
    /\ nrec = 0
    /\ lastOp = NoOp
    /\ fz = NoFuse
    /\ cfg \in [cache_enabled : BOOLEAN, use_llm_fallback : BOOLEAN]
    /\ AnalyzerIdle
    /\ ServicesIdle

\* StageAfterParse that returns from analyze_text when the LLM is not used
StageAfterParseReturn(use_llm, use_llm_fallback) ==
    IF use_llm /\ use_llm_fallback THEN "llm" ELSE "done"

\* "if use_llm and self.settings.use_llm_fallback": the LLM call, or fusion at once
StageAfterParse(use_llm, use_llm_fallback) ==
    IF use_llm /\ use_llm_fallback THEN "llm" ELSE "fuse"

\* analyze_text up to the await of the LLM call: cache lookup, preprocess,
\* heuristic parse, the decision to use the LLM; when the cache is down
\* cache_service.get swallows the RedisError and returns None
BeginStep(r, cache_up, texts) ==
    /\ MayRun(r)
    /\ req[r].pc = "idle"
    /\ \E u \in UsersOf(r), t \in texts, d \in RequestDates :
          LET analysis_date == IF d = None THEN today ELSE d[1]
              cached == IF cache_up THEN get_cached_result(cache, u, t) ELSE None
              processed_text == preprocess(TRUE, t)
              heuristic_result == heuristic_parse(processed_text)
              use_llm == should_use_llm(heuristic_result.confidence,
                                        Len(heuristic_result.actions))
              arrived == [NoRequest EXCEPT !.user_id = u, !.text = t,
                             !.date = analysis_date,
                             !.faults = IF cache_up THEN {} ELSE {"cache_get"},
                             !.conc = \E q \in Requests \ {r} : req[q].pc = "llm"]
              next == IF CacheHit(cfg.cache_enabled, cached)
                      THEN [arrived EXCEPT !.pc = "done", !.result = cached]
                      ELSE [arrived EXCEPT
                               !.pc = StageAfterParse(use_llm, cfg.use_llm_fallback),
                               !.processed = processed_text,
                               !.h = heuristic_result,
                               !.hcalls = 1,
                               !.lcalls = IF use_llm /\ cfg.use_llm_fallback
                                          THEN 1 ELSE 0]
          IN  /\ req' = [req EXCEPT ![r] = next]
              /\ running' = Yield(r, next.pc)
    /\ UNCHANGED <<histVars, fz, cfg, cache, svcVars>>

Begin(r) == BeginStep(r, TRUE, RequestTexts)

\* the LLM call returns: llm_result, meta.used_llm, meta.errors
LLMReturn(r) ==
    /\ MayRun(r)
    /\ req[r].pc = "llm"
    /\ \E response \in LLMResponses :
          req' = [req EXCEPT ![r].llm = Some(parse_with_llm(response)),
                             ![r].pc = "fuse"]
    /\ running' = Yield(r, "fuse")
    /\ UNCHANGED <<histVars, fz, cfg, cache, svcVars>>

\* fuse_results and postprocessor.process; a ValidationError ends the request
Fuse(r) ==
    /\ MayRun(r)
    /\ req[r].pc = "fuse"
    /\ LET llm_actions == IF req[r].llm = None THEN << >> ELSE req[r].llm[1].actions
           fused == fuse_results(impl, store, req[r].user_id, req[r].h.actions,
                                 llm_actions)
           pc == IF fused.ok THEN "record" ELSE "failed"
       IN  /\ req' = [req EXCEPT ![r].pc = pc,
                                 ![r].final = process(fused.actions),
                                 ![r].i = 1]
           /\ running' = Yield(r, pc)
    /\ UNCHANGED <<histVars, fz, cfg, cache, svcVars>>

\* record_action, first half: the SELECT of the row of (user_id, normalized text),
\* for the next final action with estimated_time_minutes > 0
RecordSelect(r) ==
    /\ MayRun(r)
    /\ req[r].pc = "record"
    /\ req[r].i <= Len(req[r].final)
    /\ LET action == req[r].final[req[r].i]
           key == RowKey(req[r].user_id, normalize_text(action.action))
       IN  IF action.estimated_time_minutes > 0
           THEN /\ req' = [req EXCEPT ![r].pc = "write", ![r].sel = store[key]]
                /\ running' = Yield(r, "write")
           ELSE /\ req' = [req EXCEPT ![r].i = @ + 1]
                /\ running' = Yield(r, "record")
    /\ UNCHANGED <<histVars, fz, cfg, cache, svcVars>>

\* record_action, second half: the UPDATE of the row that was read, or the INSERT
\* when there was none; an INSERT of a row that exists by now breaks
\* UNIQUE(user_id, normalized_text) in SQLite and replaces the entry in memory
RecordWrite(r) ==
    /\ MayRun(r)
    /\ req[r].pc = "write"
    /\ LET action == req[r].final[req[r].i]
           key == RowKey(req[r].user_id, normalize_text(action.action))
           time_minutes == action.estimated_time_minutes
       IN  IF impl = "sqlite" /\ ~req[r].sel.present /\ store[key].present
           THEN /\ req' = [req EXCEPT ![r].pc = "failed"]
                /\ running' = Yield(r, "failed")
                /\ UNCHANGED <<store, recSum, recCnt, nrec>>
           ELSE /\ store' = WriteRow(store, key, req[r].sel, time_minutes)
                /\ recSum' = [recSum EXCEPT ![key] = @ + time_minutes]
                /\ recCnt' = [recCnt EXCEPT ![key] = @ + 1]
                /\ nrec' = nrec + 1
                /\ req' = [req EXCEPT ![r].pc = "record", ![r].i = @ + 1, ![r].sel = NoRow]
                /\ running' = Yield(r, "record")
    /\ UNCHANGED <<impl, lastOp, fz, cfg, cache, svcVars>>

\* the AnalysisResult is built, cached when caching is enabled, and returned;
\* when the cache is down cache_service.set swallows the RedisError
FinishStep(r, cache_up) ==
    /\ MayRun(r)
    /\ req[r].pc = "record"
    /\ req[r].i > Len(req[r].final)
    /\ LET used_llm == req[r].llm # None
           meta == AnalysisMeta(used_llm,
                                IF used_llm THEN Some(latency_ms) ELSE None,
                                IF used_llm THEN req[r].llm[1].errors ELSE << >>)
           result == AnalysisResult(req[r].user_id, req[r].date, req[r].final, meta)
       IN  /\ req' = [req EXCEPT ![r].pc = "done", ![r].result = Some(result),
                                 ![r].faults = IF cache_up THEN @ ELSE @ \cup {"cache_set"}]
           /\ cache' = IF cfg.cache_enabled /\ cache_up
                       THEN cache_result(cache, req[r].user_id, req[r].text, result)
                       ELSE cache
    /\ running' = Yield(r, "done")
    /\ UNCHANGED <<histVars, fz, cfg, svcVars>>

Finish(r) == FinishStep(r, TRUE)

Next ==
    \/ \E r \in Requests : Begin(r)
    \/ \E r \in Requests : LLMReturn(r)
    \/ \E r \in Requests : Fuse(r)
    \/ \E r \in Requests : RecordSelect(r)
    \/ \E r \in Requests : RecordWrite(r)
    \/ \E r \in Requests : Finish(r)

Spec == InitAnalyzer /\ [][Next]_vars

----------------------------------------------------------------------------
(* Properties of the HistoryStore *)

\* the answer the resolution order "own row, else the row of user 0, else absent" gives
ResolvedAverage(st, user_id, text) ==
    LET n == normalize_text(text)
    IN  IF st[<<user_id, n>>].present THEN IntOf(st[<<user_id, n>>].avg)
        ELSE IF st[<<0, n>>].present THEN IntOf(st[<<0, n>>].avg)
        ELSE NoTime

\* C1: after n >= 1 record_action calls with durations d_1..d_n for a key, the stored
\* average is (d_1 + ... + d_n) / n and the stored occurrence count is n; a key that
\* was never recorded has no row.
C1_RunningMean ==
    \A k \in RowKeys :
        IF recCnt[k] = 0
        THEN ~store[k].present
        ELSE /\ store[k].present
             /\ store[k].occ = recCnt[k]
             /\ store[k].avg[1] * recCnt[k] = recSum[k] * store[k].avg[2]

\* C1 witness: a key recorded three times whose mean is not an integer, then read
C1_Witness ==
    \E k1 \in RowKeys :
        /\ recCnt[k1] = 3 /\ store[k1].avg[2] > 1
        /\ lastOp.op = "get"

\* C3: get_average_time returns the floor of the user's own row, else the floor of
\* the global row (user_id = 0), else absent, in every HistoryStore implementation.
C3_ResolutionOrder ==
    lastOp.op = "get" =>
        lastOp.result = ResolvedAverage(store, lastOp.user, lastOp.text)

\* C4: record_action(A, k, t) with A # 0 leaves get_average_time(B, k') as it was,
\* for every other user B # 0 and every text k'.
C4_UserIsolation ==
    [][ (lastOp'.op = "record" /\ lastOp'.user # 0 /\ store' # store) =>
            \A B \in Users \ {0, lastOp'.user} : \A t \in ActionTexts :
                GetAverageTime(impl, store', B, t) = GetAverageTime(impl, store, B, t)
      ]_vars

\* C4 witness: user A # 0 has just recorded a text for which another user B # 0
\* holds a row of its own with a different average
C4_Witness ==
    /\ lastOp.op = "record" /\ lastOp.user # 0
    /\ \E B \in Users \ {0, lastOp.user} :
          LET n == normalize_text(lastOp.text)
          IN  /\ store[<<B, n>>].present
              /\ store[<<lastOp.user, n>>].present
              /\ store[<<B, n>>].avg # store[<<lastOp.user, n>>].avg

----------------------------------------------------------------------------
(* Properties of the FusionService *)

\* C5: the (estimated_time_minutes, time_source) of an enriched action is given by
\* the first satisfied clause of: text (raw estimate present and confidence >= 0.7),
\* history (get_average_time returns a value), model (raw estimate present),
\* default (settings.default_time_minutes).
C5_DurationSourceRule ==
    (fz.op = "enrich" /\ fz.out.ok) =>
        LET raw == fz.h[1]
            a == fz.out.actions[1]
            got == <<a.estimated_time_minutes, a.time_source>>
            hist == GetAverageTime(impl, store, fz.user, normalize_text(raw.action))
            present == raw.estimated_time_minutes # None
        IN  IF present /\ raw.confidence >= 700
            THEN got = <<raw.estimated_time_minutes[1], "text">>
            ELSE IF hist # NoTime
            THEN got = <<hist, "history">>
            ELSE IF present
            THEN got = <<raw.estimated_time_minutes[1], "model">>
            ELSE got = <<10, "default">>

\* C5 witness: the history clause wins over a raw estimate of low confidence
C5_Witness ==
    /\ fz.op = "enrich" /\ fz.out.ok
    /\ fz.h[1].estimated_time_minutes # None
    /\ fz.out.actions[1].time_source = "history"
    /\ fz.out.actions[1].estimated_time_minutes # fz.h[1].estimated_time_minutes[1]

\* C6: should_use_llm is true iff heuristic_count = 0 or the heuristic confidence is
\* below the threshold (0.8); it is false at a positive count and the threshold itself.
C6_ShouldUseLLM ==
    fz.op = "should_use_llm" =>
        (fz.use <=> (fz.count = 0 \/ fz.conf < 800))

\* C6 witness: a positive count and a confidence equal to the threshold give false
C6_Witness ==
    /\ fz.op = "should_use_llm"
    /\ fz.count > 0 /\ fz.conf = 800 /\ ~fz.use

\* the fields fusion copies from a RawAction into its Action agree
FromRaw(a, raw) ==
    /\ a.category = raw.category
    /\ a.subcategory = raw.subcategory
    /\ a.action = raw.action
    /\ a.type = raw.type
    /\ a.confidence = raw.confidence

\* C7: the output of fuse has one Action per LLM RawAction, in order, when
\* llm_actions is not empty, and one per heuristic RawAction, in order, otherwise.
C7_FuseExclusive ==
    (fz.op = "fuse" /\ fz.out.ok) =>
        LET chosen == IF fz.l # << >> THEN fz.l ELSE fz.h
        IN  /\ Len(fz.out.actions) = Len(chosen)
            /\ \A i \in 1..Len(chosen) : FromRaw(fz.out.actions[i], chosen[i])

\* C7 witness: both lists are non-empty, of different lengths, and fuse returned
C7_Witness ==
    /\ fz.op = "fuse" /\ fz.out.ok
    /\ Len(fz.h) = 2 /\ Len(fz.l) = 1
    /\ Len(fz.out.actions) = 1

----------------------------------------------------------------------------
(* Properties of the analyzer *)

\* C2: when requests in flight together call record_action for the same
\* (user_id, normalized_text) key, no recorded duration is lost: whenever no call
\* is between its read and its write, the row's occurrences equal the number of
\* calls made for the key and its average is the exact mean of their durations.
C2_RecordSerialized ==
    (\A r \in Requests : req[r].pc # "write") =>
        \A k \in RowKeys :
            IF recCnt[k] = 0 THEN ~store[k].present
            ELSE /\ store[k].present
                 /\ store[k].occ = recCnt[k]
                 /\ store[k].avg[1] * recCnt[k] = recSum[k] * store[k].avg[2]

\* C2 witness: two requests of one user that were in flight together have both
\* finished, each having recorded a different duration for the same key
C2_Witness ==
    /\ \A r \in Requests : req[r].pc = "done"
    /\ \E r \in Requests : req[r].conc
    /\ req[1].user_id = req[2].user_id
    /\ \E k \in RowKeys :
          /\ k[1] = req[1].user_id
          /\ recCnt[k] = 2
          /\ store[k].avg[2] = 2

\* the Actions a finished request returned
Returned(r) == IF req[r].pc = "done" THEN req[r].result[1].actions ELSE << >>

\* C8: every returned Action has points equal to its achievement_weight when it
\* is an achievement (for every weight >= 0, 0 included) and equal to
\* estimated_time_minutes / 10 when it is an activity.
C8_PointsInvariant ==
    \A r \in Requests : \A i \in 1..Len(Returned(r)) :
        LET a == Returned(r)[i]
        IN  IF a.type = "achievement"
            THEN a.achievement_weight # None /\ a.points = 10 * a.achievement_weight[1]
            ELSE a.points = a.estimated_time_minutes

\* C9: whatever the parsers returned, every returned Action has
\* estimated_time_minutes >= 0, a confidence in [0, 1], a category that is not
\* empty and an action text that is not empty.
C9_FieldInvariants ==
    \A r \in Requests : \A i \in 1..Len(Returned(r)) :
        LET a == Returned(r)[i]
        IN  /\ a.estimated_time_minutes >= 0
            /\ a.confidence >= 0 /\ a.confidence <= 1000
            /\ a.category # ""
            /\ a.action # << >>

\* C10: a request that arrives when caching is enabled and the cache holds a valid
\* serialized result under its key returns the deserialized result in that step:
\* no parser is called, and the history and the cache are left as they were.
C10_CacheHitShortCircuit ==
    [][ \A r \in Requests :
          (req[r].pc = "idle" /\ req'[r].pc # "idle" /\ cfg.cache_enabled
             /\ get_cached_result(cache, req'[r].user_id, req'[r].text) # None) =>
                /\ req'[r].pc = "done"
                /\ req'[r].result = get_cached_result(cache, req'[r].user_id, req'[r].text)
                /\ req'[r].hcalls = 0 /\ req'[r].lcalls = 0
                /\ store' = store /\ cache' = cache /\ nrec' = nrec
      ]_vars

\* C10 witness: a request was served from the entry that an earlier request, which
\* called both parsers and recorded an action, had written
C10_Witness ==
    \E r, q \in Requests :
        /\ r # q
        /\ req[r].pc = "done" /\ req[r].hcalls = 0
        /\ req[q].pc = "done" /\ req[q].hcalls = 1 /\ req[q].lcalls = 1
        /\ req[r].result = req[q].result
        /\ Len(req[r].result[1].actions) > 0
        /\ nrec = 1

\* C11: with caching enabled, a call that follows a finished call with the same
\* (user_id, text), nothing having written to the cache in between, returns a
\* result whose serialized JSON is identical to that of the earlier call.
C11_CacheIdempotence ==
    [][ \A r, q \in Requests :
          (/\ r # q /\ cfg.cache_enabled
           /\ req[q].pc = "done"
           /\ req[r].pc = "idle" /\ req'[r].pc # "idle"
           /\ req'[r].user_id = req[q].user_id /\ req'[r].text = req[q].text) =>
                /\ req'[r].pc = "done"
                /\ model_dump_json(req'[r].result[1]) = model_dump_json(req[q].result[1])
      ]_vars

\* C11 witness: the second of two calls with the same user and text was served
\* from the cache, the first having used the LLM and returned an action
C11_Witness ==
    \E r, q \in Requests :
        /\ r # q /\ cfg.cache_enabled
        /\ req[r].pc = "done" /\ req[q].pc = "done"
        /\ req[r].user_id = req[q].user_id /\ req[r].text = req[q].text
        /\ req[q].lcalls = 1 /\ req[r].hcalls = 0
        /\ req[q].result[1].meta.used_llm
        /\ Len(req[q].result[1].actions) > 0
        /\ model_dump_json(req[r].result[1]) = model_dump_json(req[q].result[1])

\* C12: every returned AnalysisResult carries the user_id of its request and the
\* date of its request (today when the date was omitted), also when it is served
\* from the cache.
C12_ResultIdentity ==
    \A r \in Requests :
        req[r].pc = "done" =>
            /\ req[r].result[1].user_id = req[r].user_id
            /\ req[r].result[1].date = req[r].date

----------------------------------------------------------------------------
(* The LLM call: OpenAILLMParser.parse_with_llm and the attempts of        *)
(* _call_llm_with_retry                                                    *)

\* the classes an exception of the given class is an instance of: the class
\* hierarchies of httpx, openai, tenacity and the builtins
Bases(class) ==
    CASE class = "httpx.TimeoutException" ->
            {"httpx.TimeoutException", "httpx.HTTPError", "Exception"}
      [] class = "httpx.ConnectError" ->
            {"httpx.ConnectError", "httpx.HTTPError", "Exception"}
      [] class = "httpx.HTTPStatusError" ->
            {"httpx.HTTPStatusError", "httpx.HTTPError", "Exception"}
      [] class = "openai.APITimeoutError" ->
            {"openai.APITimeoutError", "openai.APIConnectionError", "openai.APIError",
             "Exception"}
      [] class = "openai.APIConnectionError" ->
            {"openai.APIConnectionError", "openai.APIError", "Exception"}
      [] class = "openai.APIStatusError" ->
            {"openai.APIStatusError", "openai.APIError", "Exception"}
      [] class = "tenacity.RetryError" -> {"tenacity.RetryError", "Exception"}
      [] class = "ValueError" -> {"ValueError", "Exception"}
      [] class = "asyncio.CancelledError" -> {"asyncio.CancelledError", "BaseException"}
      [] class = "redis.ConnectionError" ->
            {"redis.ConnectionError", "redis.RedisError", "Exception"}
      [] class = "redis.TimeoutError" ->
            {"redis.TimeoutError", "redis.RedisError", "Exception"}
      [] OTHER -> {"Exception"}

IsInstance(class, types) == Bases(class) \cap types # {}

\* stop=stop_after_attempt(3)
stop_after_attempt == 3

\* retry=retry_if_exception_type((httpx.TimeoutException, httpx.HTTPError))
retry_if_exception_type(class) ==
    IsInstance(class, {"httpx.TimeoutException", "httpx.HTTPError"})

\* an except clause of parse_with_llm that handles ValueError only
CaughtValueError(class) == IsInstance(class, {"ValueError"})

\* "except Exception as e" of parse_with_llm
Caught(class) == IsInstance(class, {"Exception"})

\* what one attempt, one call of client.chat.completions.create, can do: raise
\* an exception of some class for some failure, or return a response with
\* some message content
Raise(class, failure) ==
    [kind |-> "raise", class |-> class, failure |-> failure,
     content |-> "none", actions |-> << >>]

Response(content, actions) ==
    [kind |-> "response", class |-> "none", failure |-> "none",
     content |-> content, actions |-> actions]

\* the failures of an attempt as httpx raises them and as the AsyncOpenAI
\* client raises them
AttemptRaises ==
    { Raise("httpx.TimeoutException", "timeout"),
      Raise("httpx.ConnectError", "network"),
      Raise("httpx.HTTPStatusError", "5xx"),
      Raise("httpx.HTTPStatusError", "4xx"),
      Raise("openai.APITimeoutError", "timeout"),
      Raise("openai.APIConnectionError", "network"),
      Raise("openai.APIStatusError", "5xx"),
      Raise("openai.APIStatusError", "4xx") }

\* the contents of a response: text that is not JSON, JSON that is not of
\* LLMResponseSchema, and answers of the schema
AttemptResponses ==
    { Response("invalid_json", << >>), Response("schema_mismatch", << >>) } \cup
    { Response("json", as) : as \in { << >>, <<LA1>>, <<LA3>>, <<LA1, LA5>> } }

\* the exception _parse_response raises for a response, None when it returns
parse_response_raises(response) ==
    IF response.content = "json" THEN None ELSE Some("ValueError")

\* the end of parse_with_llm when an exception of the class reaches its try
\* block: the failure result when the except clause handles it
Except(c, class) ==
    IF Caught(class)
    THEN [c EXCEPT !.pc = "returned",
                   !.result = Some(parse_with_llm([kind |-> "error", actions |-> << >>]))]
    ELSE [c EXCEPT !.pc = "raised"]

\* parse_with_llm is called
ParseWithLLM ==
    /\ call.pc = "idle"
    /\ call' = [call EXCEPT !.pc = "attempt"]
    /\ UNCHANGED <<histVars, fz, anVars, pp, co>>

\* an attempt raises: tenacity calls again while the exception is of a retried
\* class and fewer than stop_after_attempt attempts were made, raises
\* RetryError when the last attempt raised a retried class, and lets any
\* other exception through
AttemptRaise ==
    \E exc \in AttemptRaises :
        LET c == [call EXCEPT !.attempts = @ + 1, !.outcomes = Append(@, exc)]
        IN  /\ call.pc = "attempt"
            /\ call' = IF retry_if_exception_type(exc.class)
                       THEN IF c.attempts >= stop_after_attempt
                            THEN Except(c, "tenacity.RetryError")
                            ELSE c
                       ELSE Except(c, exc.class)
            /\ UNCHANGED <<histVars, fz, anVars, pp, co>>

\* an attempt returns a response: _parse_response and the result
AttemptReturn ==
    \E response \in AttemptResponses :
        LET c == [call EXCEPT !.attempts = @ + 1, !.outcomes = Append(@, response)]
        IN  /\ call.pc = "attempt"
            /\ call' = IF parse_response_raises(response) = None
                       THEN [c EXCEPT !.pc = "returned",
                                      !.result = Some(parse_with_llm(
                                          [kind |-> "ok", actions |-> response.actions]))]
                       ELSE Except(c, parse_response_raises(response)[1])
            /\ UNCHANGED <<histVars, fz, anVars, pp, co>>

InitLLM ==
    /\ impl \in {"memory", "sqlite"}
    /\ store = [k \in RowKeys |-> NoRow]
    /\ recSum = [k \in RowKeys |-> 0]
    /\ recCnt = [k \in RowKeys |-> 0]
    /\ nrec = 0
    /\ lastOp = NoOp
    /\ fz = NoFuse
    /\ cfg = [cache_enabled |-> TRUE, use_llm_fallback |-> TRUE]
    /\ AnalyzerIdle
    /\ ServicesIdle

NextLLM ==
    \/ ParseWithLLM
    \/ AttemptRaise
    \/ AttemptReturn

SpecLLM == InitLLM /\ [][NextLLM]_vars

\* the last attempt of the call, and whether it failed
LastOutcome(c) == c.outcomes[Len(c.outcomes)]

AttemptFailed(o) == o.kind = "raise" \/ o.content # "json"

\* C14: parse_with_llm is total: whatever the attempts do (an exception on every
\* attempt, retries exhausted, a 4xx, invalid JSON, a schema mismatch) the call
\* returns a result and never raises, and when the last attempt failed the
\* result has no action, confidence 0 and at least one error
C14_ParseTotal ==
    /\ call.pc # "raised"
    /\ (call.pc = "returned" /\ AttemptFailed(LastOutcome(call))) =>
          /\ call.result[1].actions = << >>
          /\ call.result[1].confidence = 0
          /\ call.result[1].errors # << >>

\* retries were exhausted by three transport errors and the call returned
C14_Witness ==
    /\ call.pc = "returned"
    /\ call.attempts = 3
    /\ \A i \in 1..3 : call.outcomes[i].kind = "raise"
    /\ call.result[1].errors # << >>

\* the failures the retry policy is about
TransientFailure(o) == o.kind = "raise" /\ o.failure \in {"timeout", "network", "5xx"}

ProtocolFailure(o) ==
    \/ o.kind = "raise" /\ o.failure = "4xx"
    \/ o.kind = "response" /\ o.content \in {"invalid_json", "schema_mismatch"}

\* C15: an attempt that fails with a transient transport failure (timeout,
\* network error, 5xx) is followed by another attempt unless it was the third;
\* no call makes more than 3 attempts; an attempt 2 or 3 that succeeds makes the
\* call return the parsed actions
C15_RetryTransient ==
    [][ /\ call'.attempts <= 3
        /\ (/\ call'.attempts = call.attempts + 1
            /\ TransientFailure(LastOutcome(call'))
            /\ call'.attempts < 3) => call'.pc = "attempt"
        /\ (/\ call'.attempts = call.attempts + 1
            /\ call'.attempts \in {2, 3}
            /\ ~AttemptFailed(LastOutcome(call'))) =>
                /\ call'.pc = "returned"
                /\ call'.result[1].actions = parse_response(LastOutcome(call').actions)
      ]_vars

----------------------------------------------------------------------------
(* The analyzer with a failing database and a failing cache server *)

\* the cache lookup of analyze_text with the cache server down
BeginCacheDown(r) ==
    /\ cfg.cache_enabled
    /\ BeginStep(r, FALSE, RequestTexts)

\* the cache write of analyze_text with the cache server down
FinishCacheDown(r) ==
    /\ cfg.cache_enabled
    /\ FinishStep(r, FALSE)

\* record_action raises sqlite3.Error (database locked, disk full): nothing is
\* committed, and the loop of analyze_text that calls it has no handler
RecordRaises(r) ==
    /\ MayRun(r)
    /\ req[r].pc = "write"
    /\ impl = "sqlite"
    /\ req' = [req EXCEPT ![r].pc = "failed", ![r].faults = @ \cup {"history"}]
    /\ running' = Yield(r, "failed")
    /\ UNCHANGED <<histVars, fz, cfg, cache, svcVars>>

NextFaults ==
    \/ Next
    \/ \E r \in Requests : BeginCacheDown(r)
    \/ \E r \in Requests : FinishCacheDown(r)
    \/ \E r \in Requests : RecordRaises(r)

\* the services that can fail are in use: the SQLite store and the cache
InitFaults ==
    /\ InitAnalyzer
    /\ impl = "sqlite"
    /\ cfg.cache_enabled

SpecFaults == InitFaults /\ [][NextFaults]_vars

\* C17: a failure of record_action or of the cache get / set never fails the
\* request: the step in which the failure happens does not end analyze_text
\* with an exception
C17_BestEffortWrites ==
    [][ \A r \in Requests :
            req'[r].faults # req[r].faults => req'[r].pc # "failed" ]_vars

\* C18: analyze_text never raises, whatever the heuristic parser and the LLM
\* give it (no action, a failed call, an empty answer, values out of range) and
\* with or without cache and history; after a failed LLM call the final actions
\* are those of the heuristic actions alone, and the errors of the LLM result
\* are in meta.errors of the result
C18_LocalRecovery ==
    [][ \A r \in Requests :
            /\ req'[r].pc # "failed"
            /\ (/\ req[r].pc = "fuse" /\ req'[r].pc = "record"
                /\ req[r].llm # None /\ req[r].llm[1].errors # << >>) =>
                   req'[r].final =
                       process(fuse_results(impl, store, req[r].user_id,
                                            req[r].h.actions, << >>).actions)
            /\ (/\ req[r].pc = "record" /\ req'[r].pc = "done"
                /\ req[r].llm # None) =>
                   \A i \in 1..Len(req[r].llm[1].errors) :
                       \E j \in 1..Len(req'[r].result[1].meta.errors) :
                           req'[r].result[1].meta.errors[j] = req[r].llm[1].errors[i]
      ]_vars
----------------------------------------------------------------------------
(* The postprocessor on its own: calls of process, _deduplicate_actions    *)
(* and _merge_actions                                                      *)

\* an Action whose points agree with its type, time and weight
PostAction(text, cat, ty, sub, est, ts, conf, weight) ==
    [category |-> cat, subcategory |-> sub, action |-> text, type |-> ty,
     estimated_time_minutes |-> est, time_source |-> ts, confidence |-> conf,
     achievement_weight |-> weight,
     points |-> IF ty = ACHIEVEMENT THEN 10 * WeightOr(weight, 10) ELSE est]

\* action texts: TextP and TextQ are each within the similarity threshold of
\* TextCore (ratios 12/13 and 12/14) but not of each other (12/15); TextG and
\* TextU become TextP by the synonym table and by lower-casing
TextCore == <<"x", "x", "x", "x", "x", "x">>
TextP == <<"z">> \o TextCore
TextQ == TextCore \o <<"c", "c">>
TextG == <<"g">> \o TextCore
TextU == <<"Z">> \o TextCore

PostActions ==
    { PostAction(TextP, "sport", ACTIVITY, None, 1, DEFAULT, 600, None),
      PostAction(TextCore, "sport", ACTIVITY, Some("gym"), 2, TEXT, 900, None),
      PostAction(TextQ, "sport", ACTIVITY, None, 3, HISTORY, 700, None),
      PostAction(TextG, "sport", ACTIVITY, Some("run"), 1, MODEL, 800, None),
      PostAction(TextU, "sport", ACTIVITY, None, 2, TEXT, 950, None),
      PostAction(TextCore, "study", ACTIVITY, None, 2, TEXT, 900, None),
      PostAction(TextCore, "sport", ACHIEVEMENT, Some("gym"), 0, DEFAULT, 900, Some(25)),
      PostAction(TextP, "sport", ACHIEVEMENT, None, 0, DEFAULT, 950, None) }

\* the longest list given to the postprocessor
MaxActions == 3

PostLists ==
    UNION { [1..n -> PostActions] : n \in 0..MaxActions }

InitPost ==
    /\ impl \in {"memory", "sqlite"}
    /\ store = [k \in RowKeys |-> NoRow]
    /\ recSum = [k \in RowKeys |-> 0]
    /\ recCnt = [k \in RowKeys |-> 0]
    /\ nrec = 0
    /\ lastOp = NoOp
    /\ fz = NoFuse
    /\ cfg = [cache_enabled |-> TRUE, use_llm_fallback |-> TRUE]
    /\ AnalyzerIdle
    /\ ServicesIdle

\* process(actions)
PostProcess ==
    /\ pp.op = "none"
    /\ \E actions \in PostLists :
          pp' = [op |-> "process", actions |-> actions, out |-> process(actions),
                 again |-> << >>]
    /\ UNCHANGED <<histVars, fz, anVars, call, co>>

\* process called on the list the last process call returned
PostProcessAgain ==
    /\ pp.op = "process"
    /\ pp' = [pp EXCEPT !.op = "again", !.again = process(pp.out)]
    /\ UNCHANGED <<histVars, fz, anVars, call, co>>

\* _deduplicate_actions(actions)
PostDeduplicate ==
    /\ pp.op = "none"
    /\ \E actions \in PostLists :
          pp' = [op |-> "dedup", actions |-> actions,
                 out |-> deduplicate_actions(actions), again |-> << >>]
    /\ UNCHANGED <<histVars, fz, anVars, call, co>>

\* _merge_actions(action1, action2), which _deduplicate_actions calls for an
\* action2 that is similar to the action1 already kept
PostMerge ==
    /\ pp.op = "none"
    /\ \E action1 \in PostActions, action2 \in PostActions :
          /\ are_similar(action2, action1)
          /\ pp' = [op |-> "merge", actions |-> <<action1, action2>>,
                    out |-> <<post_merge_actions(action1, action2)>>, again |-> << >>]
    /\ UNCHANGED <<histVars, fz, anVars, call, co>>

NextPost ==
    \/ PostProcess
    \/ PostProcessAgain
    \/ PostDeduplicate
    \/ PostMerge

SpecPost == InitPost /\ [][NextPost]_vars

\* C19: process is idempotent: process(process(L)) = process(L) for every list
\* of Actions L, also when the similarity of the action texts is not transitive
C19_ProcessIdempotent ==
    pp.op = "again" => pp.again = pp.out

\* the rank of a time source: text > history > model > default
SourceRank(source) ==
    CASE source = TEXT -> 4 [] source = HISTORY -> 3 [] source = MODEL -> 2 [] OTHER -> 1

\* m is a merge of the operands a and b with t the operand of the higher time
\* source rank and w the operand of the higher confidence, o being the other
\* operand than w
MergedFrom(m, t, w, o) ==
    /\ m.estimated_time_minutes = t.estimated_time_minutes
    /\ m.time_source = t.time_source
    /\ m.points = t.points
    /\ m.category = w.category
    /\ m.action = w.action
    /\ m.type = w.type
    /\ m.achievement_weight = w.achievement_weight
    /\ m.subcategory = IF w.subcategory # None THEN w.subcategory ELSE o.subcategory
    /\ m.confidence = Max(w.confidence, o.confidence)

\* C20: deduplication merges two actions only if they have the same category,
\* the same type and texts of similarity >= the threshold, and puts the merged
\* action at the place of the earlier one without growing the list; the merged
\* action has the time fields of the operand of the higher time source rank,
\* category, action, type and achievement_weight of the operand of the higher
\* confidence, that operand's subcategory or else the other operand's, and the
\* maximum of the two confidences (on equal rank or confidence either operand)
C20_MergeRule ==
    /\ (pp.op = "dedup" /\ Len(pp.actions) = 2) =>
          LET a == pp.actions[1]
              b == pp.actions[2]
              similar == /\ a.category = b.category
                         /\ a.type = b.type
                         /\ RatioAtLeast(LowerText(a.action), LowerText(b.action), 85)
          IN  IF similar
              THEN Len(pp.out) = 1
              ELSE pp.out = pp.actions
    /\ pp.op = "dedup" => Len(pp.out) <= Len(pp.actions)
    /\ pp.op = "merge" =>
          LET a == pp.actions[1]
              b == pp.actions[2]
              m == pp.out[1]
          IN  \E t \in {a, b}, w \in {a, b} :
                 /\ \A x \in {a, b} : SourceRank(t.time_source) >= SourceRank(x.time_source)
                 /\ \A x \in {a, b} : w.confidence >= x.confidence
                 /\ \E o \in {a, b} : (a # b => o # w) /\ MergedFrom(m, t, w, o)
----------------------------------------------------------------------------
(* The analyzer on the further request texts *)

\* analyze_text called with one of the further texts
BeginVariant(r) == BeginStep(r, TRUE, VariantTexts)

NextVariants ==
    \/ \E r \in Requests : BeginVariant(r)
    \/ \E r \in Requests : LLMReturn(r)
    \/ \E r \in Requests : Fuse(r)
    \/ \E r \in Requests : RecordSelect(r)
    \/ \E r \in Requests : RecordWrite(r)
    \/ \E r \in Requests : Finish(r)

SpecVariants == InitAnalyzer /\ [][NextVariants]_vars

\* a request text without its duration
WithoutDuration(text) == Strip(CollapseSpaces(SelectSeq(text, LAMBDA c : ~IsTime(c))))

\* C21: after analyze(u, a with a duration d) has recorded its action, a later
\* analyze(u, a without a duration) that misses the cache, keeps the heuristic
\* action and does not take the text clause gives it time_source = history:
\* the key analyze records under is the key fusion looks up
C21_LearnThenUse ==
    [][ \A r, q \in Requests :
          (/\ r # q
           /\ req[q].pc = "done" /\ req[q].hcalls = 1
           /\ req[q].user_id = req[r].user_id
           /\ extract_time(req[q].text) # None
           /\ Len(req[q].final) = 1 /\ req[q].final[1].estimated_time_minutes > 0
           /\ req[r].text = WithoutDuration(req[q].text)
           /\ req[r].pc = "fuse" /\ req'[r].pc = "record"
           /\ (req[r].llm = None \/ req[r].llm[1].actions = << >>)
           /\ Len(req[r].h.actions) = 1) =>
                /\ Len(req'[r].final) = 1
                /\ req'[r].final[1].time_source = HISTORY
      ]_vars
----------------------------------------------------------------------------
(* The analyzer with requests that are cancelled *)

\* the task of the request is cancelled while it waits for the LLM call:
\* CancelledError is raised at the await inside parse_with_llm's try block;
\* when the except clause does not handle it, it leaves parse_with_llm and
\* analyze_text, which has no handler
Cancel(r) ==
    /\ MayRun(r)
    /\ req[r].pc = "llm"
    /\ LET pc == IF Caught("asyncio.CancelledError") THEN "fuse" ELSE "cancelled"
       IN  /\ req' = [req EXCEPT
                        ![r].pc = pc,
                        ![r].llm = IF pc = "fuse"
                                   THEN Some(parse_with_llm([kind |-> "error",
                                                             actions |-> << >>]))
                                   ELSE @,
                        ![r].faults = @ \cup {"cancel"}]
           /\ running' = IF pc = "fuse" THEN r ELSE 0
    /\ UNCHANGED <<histVars, fz, cfg, cache, svcVars>>

NextCancel ==
    \/ Next
    \/ \E r \in Requests : Cancel(r)

\* the LLM fallback is in use
InitCancel ==
    /\ InitAnalyzer
    /\ cfg.use_llm_fallback

SpecCancel == InitCancel /\ [][NextCancel]_vars

\* C22: a request cancelled while its LLM call is in progress returns the
\* heuristic-only result: it goes on to fusion with no LLM action and does not
\* end with an exception
C22_CancelDuringLLM ==
    [][ \A r \in Requests :
          (req[r].pc = "llm" /\ "cancel" \in req'[r].faults) =>
               /\ req'[r].pc = "fuse"
               /\ req'[r].llm # None
               /\ req'[r].llm[1].actions = << >>
      ]_vars
----------------------------------------------------------------------------
(* The result cache on its own: get, set and delete of RedisCacheService *)

\* the keys and values of the calls
CacheOpKeys == { generate_cache_key(u, <<"z">>) : u \in RequestUsers }
CacheOpValues == { <<<<"user_id", 1>>>>, <<<<"user_id", 2>>>> }

\* what the Redis client raises when the server cannot be reached
BackendErrors == {"redis.ConnectionError", "redis.TimeoutError"}

\* an except clause that handles redis.TimeoutError only
HandledTimeoutOnly(class) == IsInstance(class, {"redis.TimeoutError"})

\* "except redis.RedisError" of get, set and delete
Handled(class) == IsInstance(class, {"redis.RedisError"})

InitCache ==
    /\ impl \in {"memory", "sqlite"}
    /\ store = [k \in RowKeys |-> NoRow]
    /\ recSum = [k \in RowKeys |-> 0]
    /\ recCnt = [k \in RowKeys |-> 0]
    /\ nrec = 0
    /\ lastOp = NoOp
    /\ fz = NoFuse
    /\ cfg = [cache_enabled |-> TRUE, use_llm_fallback |-> TRUE]
    /\ AnalyzerIdle
    /\ ServicesIdle

\* get(key) with the server up: the stored value, None when there is none
CacheGet ==
    \E key \in CacheOpKeys :
        /\ co' = [op |-> "get", key |-> key, up |-> TRUE, ret |-> cache[key],
                  raised |-> FALSE]
        /\ UNCHANGED <<histVars, fz, anVars, call, pp>>

\* set(key, value) with the server up
CacheSet ==
    \E key \in CacheOpKeys, value \in CacheOpValues :
        /\ cache' = [cache EXCEPT ![key] = Some(value)]
        /\ co' = [op |-> "set", key |-> key, up |-> TRUE, ret |-> None, raised |-> FALSE]
        /\ UNCHANGED <<histVars, fz, cfg, req, running, call, pp>>

\* delete(key) with the server up
CacheDelete ==
    \E key \in CacheOpKeys :
        /\ cache' = [cache EXCEPT ![key] = None]
        /\ co' = [op |-> "delete", key |-> key, up |-> TRUE, ret |-> None,
                  raised |-> FALSE]
        /\ UNCHANGED <<histVars, fz, cfg, req, running, call, pp>>

\* get, set or delete with the server down: the client raises, and the call
\* returns None when its except clause handles the exception
CacheBackendDown ==
    \E op \in {"get", "set", "delete"}, key \in CacheOpKeys, class \in BackendErrors :
        /\ co' = [op |-> op, key |-> key, up |-> FALSE, ret |-> None,
                  raised |-> ~Handled(class)]
        /\ UNCHANGED <<histVars, fz, anVars, call, pp>>

NextCache ==
    \/ CacheGet
    \/ CacheSet
    \/ CacheDelete
    \/ CacheBackendDown

SpecCache == InitCache /\ [][NextCache]_vars

\* C23: get, set and delete never raise; when the backend fails, get returns
\* absent and set and delete change nothing: the stored entries stay as they were
C23_CacheTotal ==
    [][ co' # co =>
          /\ ~co'.raised
          /\ ~co'.up => (cache' = cache /\ co'.ret = None)
      ]_vars

\* a set failed while an entry was stored
C23_Witness ==
    /\ co.op = "set" /\ ~co.up /\ ~co.raised
    /\ \E k \in CacheOpKeys : cache[k] # None

\* C24: a request that missed the cache invokes the LLM parser at most once, and
\* it invokes it exactly when should_use_llm(h.confidence, |h.actions|) holds
\* and use_llm_fallback is on; its result has used_llm true and llm_latency_ms
\* set exactly when the parser was invoked, also when the call failed
C24_LLMInvocation ==
    \A r \in Requests :
        req[r].hcalls = 1 =>
            /\ req[r].lcalls <= 1
            /\ (req[r].lcalls = 1) <=>
                   (/\ should_use_llm(req[r].h.confidence, Len(req[r].h.actions))
                    /\ cfg.use_llm_fallback)
            /\ req[r].pc = "done" =>
                   /\ req[r].result[1].meta.used_llm <=> (req[r].lcalls = 1)
                   /\ (req[r].result[1].meta.llm_latency_ms # None) <=> (req[r].lcalls = 1)

\* a request whose LLM call failed has returned, and one that made no call has too
C24_Witness ==
    \E r, q \in Requests :
        /\ req[r].pc = "done" /\ req[r].lcalls = 1
        /\ req[r].llm # None /\ req[r].llm[1].errors # << >>
        /\ req[r].result[1].meta.used_llm
        /\ req[q].pc = "done" /\ req[q].hcalls = 1 /\ req[q].lcalls = 0
        /\ ~req[q].result[1].meta.used_llm

\* C25: the record loop of analyze_text calls record_action for a final action
\* exactly when the action is an activity with estimated_time_minutes > 0; an
\* achievement or an action of 0 minutes causes no HistoryStore write
C25_RecordsActivities ==
    [][ \A r \in Requests :
          (/\ req[r].pc = "record"
           /\ req[r].i <= Len(req[r].final)
           /\ req'[r] # req[r]) =>
               LET action == req[r].final[req[r].i]
               IN  (req'[r].pc = "write") <=>
                       (/\ action.type = ACTIVITY
                        /\ action.estimated_time_minutes > 0)
      ]_vars

\* the order of the stages of one request: from a stage to the next one
StageOrder ==
    { <<"idle", "done">>, <<"idle", "llm">>, <<"idle", "fuse">>, <<"llm", "fuse">>,
      <<"fuse", "record">>, <<"fuse", "failed">>, <<"record", "write">>,
      <<"write", "record">>, <<"write", "failed">>, <<"record", "done">> }

\* C26: the stages of a request that misses the cache come in the order cache
\* lookup, preprocess and heuristic parse, LLM parse when decided, fusion with
\* the history lookups and postprocess, the history records, the cache write:
\* a stage is only followed by the next one, the history is written only by a
\* request past fusion, and the cache only by the last step of a request
C26_StageOrder ==
    [][ /\ \A r \in Requests :
              req'[r].pc # req[r].pc =>
                  /\ <<req[r].pc, req'[r].pc>> \in StageOrder
                  /\ (req[r].pc = "idle" /\ req'[r].pc = "done") => req'[r].hcalls = 0
                  /\ req'[r].pc = "llm" => req'[r].lcalls = 1
        /\ store' # store =>
              \E r \in Requests : req[r].pc = "write" /\ req'[r].pc = "record"
        /\ cache' # cache =>
              \E r \in Requests : req[r].pc = "record" /\ req'[r].pc = "done"
      ]_vars

\* a request went through every stage: LLM call, a history record, the cache write
C26_Witness ==
    \E r \in Requests :
        /\ req[r].pc = "done" /\ req[r].hcalls = 1 /\ req[r].lcalls = 1
        /\ \E i \in 1..Len(req[r].final) : req[r].final[i].estimated_time_minutes > 0
        /\ cache[generate_cache_key(req[r].user_id, normalize_text(req[r].text))] # None

\* the text with every phone number masked: what two raw texts that differ only
\* inside a phone number have in common
MaskPII(text) == [i \in 1..Len(text) |-> IF IsPhone(text[i]) THEN "#" ELSE text[i]]

\* the raw texts that differ from text at most inside a phone number
PIIVariants(text) == { t \in VariantTexts : MaskPII(t) = MaskPII(text) }

\* C27: with PII redaction on, what a request hands to the parsers, writes to the
\* HistoryStore and returns is what it would be for any raw text that differs
\* only inside a phone number: the parser input holds no phone number and is the
\* same, the final actions are the same for the same LLM result and history, a
\* history write is under the text of such an action, and the result carries
\* these actions and no raw text
C27_RawTextConfined ==
    [][ \A r \in Requests : \A t \in PIIVariants(req'[r].text) :
            LET public == heuristic_parse(preprocess(TRUE, t))
                llm_actions == IF req[r].llm = None THEN << >> ELSE req[r].llm[1].actions
            IN  /\ (req[r].pc = "idle" /\ req'[r].hcalls = 1) =>
                      /\ req'[r].processed = preprocess(TRUE, t)
                      /\ \A i \in 1..Len(req'[r].processed) : ~IsPhone(req'[r].processed[i])
                      /\ req'[r].h = public
                /\ (req[r].pc = "fuse" /\ req'[r].pc # "fuse") =>
                      req'[r].final = process(fuse_results(impl, store, req[r].user_id,
                                                           public.actions, llm_actions).actions)
                /\ (req[r].pc = "write" /\ req'[r].pc = "record") =>
                      /\ req'[r].final = req[r].final
                      /\ \A k \in RowKeys :
                            store'[k] # store[k] =>
                                k = RowKey(req[r].user_id,
                                           normalize_text(req[r].final[req[r].i].action))
                /\ (req[r].pc = "record" /\ req'[r].pc = "done") =>
                      /\ req'[r].result[1].actions = req[r].final
                      /\ req'[r].result[1].raw_text = None
      ]_vars

\* two requests of one user whose texts differ in the phone number only have
\* both returned the same actions, and the history holds a row written by them
C27_Witness ==
    \E r, q \in Requests :
        /\ req[r].pc = "done" /\ req[q].pc = "done"
        /\ req[r].hcalls = 1 /\ req[q].hcalls = 1
        /\ req[r].user_id = req[q].user_id
        /\ req[r].text # req[q].text
        /\ req[q].text \in PIIVariants(req[r].text)
        /\ req[r].result[1].actions = req[q].result[1].actions
        /\ req[r].result[1].actions # << >>
        /\ store[RowKey(req[r].user_id, normalize_text(req[r].final[1].action))].present

\* C28: analyze_text records a duration in the HistoryStore only when it was
\* read from the text or given by the model: the step that goes on to write the
\* row of a final action finds its time_source to be text or model, never
\* history or default
C28_ObservedOnly ==
    [][ \A r \in Requests :
            (req[r].pc = "record" /\ req'[r].pc = "write") =>
                req[r].final[req[r].i].time_source \in {TEXT, MODEL}
      ]_vars

\* the final actions of a cache miss on text for user_id with the history as it
\* is now and no LLM result
ActionsOnMiss(user_id, text) ==
    process(fuse_results(impl, store, user_id,
                         heuristic_parse(preprocess(TRUE, text)).actions, << >>).actions)

\* C29: two texts of one user with the same cache key give the same actions: when
\* a request misses the cache, every text with the same normalize_text would,
\* with the same history, come to the same list of final actions
C29_SameKeySameActions ==
    [][ \A r \in Requests :
            (req[r].pc = "idle" /\ req'[r].hcalls = 1) =>
                \A t \in VariantTexts :
                    normalize_text(t) = normalize_text(req'[r].text) =>
                        ActionsOnMiss(req'[r].user_id, t)
                            = ActionsOnMiss(req'[r].user_id, req'[r].text)
      ]_vars

\* C30: every RawAction of the heuristic parser has a confidence of at least 0.7,
\* and of at least 0.9 when a duration was extracted; fusion gives such an action
\* the duration of the text, and never gives a heuristic action the source model
C30_HeuristicConfidence ==
    \A r \in Requests :
        req[r].hcalls = 1 =>
            \A i \in 1..Len(req[r].h.actions) :
                LET raw_action == req[r].h.actions[i]
                    tm == determine_time(impl, store, req[r].user_id, raw_action)
                IN  /\ raw_action.confidence >= 700
                    /\ raw_action.estimated_time_minutes # None =>
                          /\ raw_action.confidence >= 900
                          /\ tm[2] = TEXT
                    /\ tm[2] # MODEL
====
